---- MODULE Spec2Model ----
(***************************************************************************)
(* The real-time conversation-routing and presence server (server.ts) and  *)
(* the conversation server actions, as a state machine.                    *)
(*                                                                         *)
(* Every `await` of a database call is one step: the call takes effect,    *)
(* the handler resumes with its result and runs on to its next await.      *)
(* Between two steps of one handler any other handler, timer callback or   *)
(* server action may run.                                                  *)
(***************************************************************************)
EXTENDS Integers, Sequences, FiniteSets, TLC

\* ------------------------------------------------------------------ bounds
NumSockets == 2
NumCustomers == 1
NumAgents == 2
MaxConvId == 2
MaxHandlers == 2
MaxJoins == 1
MaxEvents == 2
SeqJoins == 1
SeqEvents == 2
SeqActions == 2
TypingJoins == 1
MaxTypingEvents == 2
MaxTime == 4
PresenceJoins == 1
MaxPresenceEvents == 2
FaultJoins == 1
FaultEvents == 2
MaxReplies == 2
ResolverEvents == 3
ResolverActions == 2

\* the quiet interval of the typing coordinator, in ticks of 1000 ms
TypingTimeout == 3

SocketNames == <<"s1", "s2", "s3", "s4">>
CustomerNames == <<"c1", "c2", "c3">>
AgentNames == <<"a1", "a2", "a3">>

Sockets == {SocketNames[i] : i \in 1..NumSockets}
Customers == {CustomerNames[i] : i \in 1..NumCustomers}
Agents == {AgentNames[i] : i \in 1..NumAgents}
ConvIds == 1..MaxConvId
Handlers == 1..MaxHandlers

None == 0
NoUser == ""

Classes == {"join", "message", "action", "typing", "presence"}

VARIABLES
  sockets,            \* socket id -> "new" | "connected" | "closed"
  activeConnections,  \* the Connection Registry: socket id -> entry or NoConn
  rooms,              \* socket id -> the rooms it has joined
  conversations,      \* Conversation rows, by id 1..Len
  recency,            \* conversation ids, most recently updated first
  messages,           \* Message rows, by id 1..Len, in the order persisted
  agentOnline,        \* Agent rows: agent id -> isOnline
  handlers,           \* in-flight async handlers, suspended at an await
  typingUsers,        \* the typing-timer map: key -> timer handle
  timers,             \* the armed timers (setTimeout handles not yet fired)
  nextTimer,          \* the next timer handle
  presenceWrites,     \* un-awaited prisma.agent.update calls in flight
  emitted,            \* every event emitted so far, with its recipients
  resets,             \* conversations whose unreadCount a mark-read has reset
  received,           \* the typing and presence events received so far, and
                      \* the message payloads that were not accepted
  now,                \* the clock, in ticks
  nEvents             \* inbound events accepted so far, by class

vars == <<sockets, activeConnections, rooms, conversations, recency, messages,
          agentOnline, handlers, typingUsers, timers, nextTimer,
          presenceWrites, emitted, resets, received, now, nEvents>>

dbVars == <<conversations, recency, messages>>
typingVars == <<typingUsers, timers, nextTimer, now>>
histVars == <<received, resets>>
presenceVars == <<agentOnline, presenceWrites>>

\* ------------------------------------------------------------------ values
NoConn == [conversationId |-> None, userId |-> NoUser, userType |-> "none"]
NoConv == [id |-> None, customerId |-> NoUser, status |-> "none", agentId |-> NoUser]

IdleHandler ==
  [kind |-> "idle", pc |-> "idle", sock |-> "", customerId |-> NoUser,
   agentId |-> NoUser, conversationId |-> None, conv |-> NoConv, msg |-> None,
   readByType |-> "", messageIds |-> {}, tempId |-> None]

ConvRoom(id) == <<"conversation", id, "">>
CustomerRoom(c) == <<"customer", None, c>>
AgentsRoom == <<"agents", None, "">>
AgentRoom(a) == <<"agent", None, a>>

Connected == {s \in Sockets : sockets[s] = "connected"}

\* the sockets an emit to `room` reaches
Members(room) == {s \in Connected : room \in rooms[s]}

\* io.to(room).emit
ToRoom(room) == Members(room)

ToRoomIncludingSender(room, s) == Members(room)

\* socket.to(room).emit: the room without the sending socket
ToRoomExcept(room, s) == Members(room) \ {s}

\* socket.emit: the socket itself, if it is still connected
ToSocket(s) == {s} \cap Connected

\* io.emit
ToAll == Connected

Event(ev, conv, ref, who, val, to) ==
  [ev |-> ev, conv |-> conv, ref |-> ref, who |-> who, val |-> val, to |-> to]

\* ------------------------------------------------------------ persistence
ConvExists(id) == id \in 1..Len(conversations)

IsActive(status) == status \in {"open", "assigned"}

\* the row as a handler holds it after a read
Snapshot(id) ==
  [id |-> id, customerId |-> conversations[id].customerId,
   status |-> conversations[id].status, agentId |-> conversations[id].agentId]

\* updatedAt := new Date(): the conversation becomes the most recently updated
Touch(rec, id) == <<id>> \o SelectSeq(rec, LAMBDA c : c # id)

\* findFirst {customerId, status in [open, assigned]} orderBy updatedAt desc
ActiveOf(customerId) ==
  SelectSeq(recency, LAMBDA c : conversations[c].customerId = customerId
                                /\ IsActive(conversations[c].status))

FindFirstActiveMissing(customerId) == None

FindFirstActive(customerId) ==
  IF ActiveOf(customerId) = <<>> THEN None ELSE Head(ActiveOf(customerId))

MessagesOf(id) == {m \in 1..Len(messages) : messages[m].conversationId = id}

Max(S) == CHOOSE x \in S : \A y \in S : y <= x

\* messages orderBy createdAt desc, take 1
LastMessageOf(id) == IF MessagesOf(id) = {} THEN None ELSE Max(MessagesOf(id))

\* ------------------------------------------------------------------ Init
Init ==
  /\ sockets = [s \in Sockets |-> "new"]
  /\ activeConnections = [s \in Sockets |-> NoConn]
  /\ rooms = [s \in Sockets |-> {}]
  /\ conversations = <<>>
  /\ recency = <<>>
  /\ messages = <<>>
  /\ agentOnline = [a \in Agents |-> FALSE]
  /\ handlers = [h \in Handlers |-> IdleHandler]
  /\ typingUsers = <<>>
  /\ timers = {}
  /\ nextTimer = 1
  /\ presenceWrites = <<>>
  /\ emitted = <<>>
  /\ resets = {}
  /\ received = <<>>
  /\ now = 0
  /\ nEvents = [c \in Classes |-> 0]


\* --------------------------------------------------------------- helpers
Handler(h) == handlers[h]

AllIdle == \A h \in Handlers : handlers[h].kind = "idle"

HasFreeSlot == \E h \in Handlers : handlers[h].kind = "idle"

FreeSlot ==
  CHOOSE h \in Handlers :
    /\ handlers[h].kind = "idle"
    /\ \A g \in Handlers : handlers[g].kind = "idle" => h <= g

\* an inbound event or request of the class is taken up
Accept(class) == nEvents' = [nEvents EXCEPT ![class] = @ + 1]

\* fewer than max events of the class have been taken up
Within(class, max) == nEvents[class] < max

\* tempId: `temp-${Date.now()}`, a fresh id with every message the client sends
TempId == nEvents["message"] + 1

\* the handler of `kind` starts on socket s and suspends at its first await
Suspend(kind, pc, s, customerId, agentId, conversationId, readByType, messageIds) ==
  [handlers EXCEPT ![FreeSlot] =
     [kind |-> kind, pc |-> pc, sock |-> s, customerId |-> customerId,
      agentId |-> agentId, conversationId |-> conversationId, conv |-> NoConv,
      msg |-> None, readByType |-> readByType, messageIds |-> messageIds,
      tempId |-> IF kind \in {"customer:message", "agent:message"}
                 THEN TempId ELSE None]]

Goto(h, pc) == [handlers EXCEPT ![h].pc = pc]
Finish(h) == [handlers EXCEPT ![h] = IdleHandler]

\* socket.join(room): nothing once the socket has been cleaned up
Join(s, rs) == [rooms EXCEPT ![s] = IF sockets[s] = "connected" THEN @ \cup rs ELSE @]

AttachConversationAlways(s, id) ==
  [activeConnections EXCEPT ![s].conversationId = id]

\* conn = activeConnections.get(socket.id); if (conn) conn.conversationId = id
AttachConversation(s, id) ==
  IF activeConnections[s] = NoConn
  THEN activeConnections
  ELSE [activeConnections EXCEPT ![s].conversationId = id]

\* ------------------------------------------------------------ connection
Connect(s) ==
  /\ sockets[s] = "new"
  /\ sockets' = [sockets EXCEPT ![s] = "connected"]
  /\ UNCHANGED <<activeConnections, rooms, dbVars, presenceVars, handlers,
                 typingVars, emitted, resets, received, nEvents>>

\* customer:join with a payload that fails CustomerJoinSchema
CustomerJoinInvalid(s) ==
  /\ sockets[s] = "connected"
  /\ Accept("join")
  /\ emitted' = Append(emitted,
       Event("message:error", None, None, NoUser, "Invalid join data", ToSocket(s)))
  /\ UNCHANGED <<sockets, activeConnections, rooms, dbVars, presenceVars,
                 handlers, typingVars, resets, received>>

\* customer:join; hasInfo: customerName or customerEmail is given
CustomerJoin(s, customerId, conversationId, hasInfo) ==
  /\ sockets[s] = "connected"
  /\ Accept("join")
  /\ activeConnections' = [activeConnections EXCEPT ![s] =
       [conversationId |-> conversationId, userId |-> customerId,
        userType |-> "customer"]]
  /\ rooms' = Join(s, (IF conversationId # None THEN {ConvRoom(conversationId)} ELSE {})
                      \cup {CustomerRoom(customerId)})
  /\ IF conversationId # None /\ hasInfo
     THEN /\ HasFreeSlot
          /\ handlers' = Suspend("customer:join", "cj_update", s, customerId,
                                 NoUser, conversationId, "", {})
     ELSE UNCHANGED handlers
  /\ UNCHANGED <<sockets, dbVars, presenceVars, typingVars, emitted, resets,
                 received>>

\* customer:join resumes from conversation.update (name and email only); the
\* update of a missing row throws into the handler's catch
CjUpdate(h) ==
  /\ Handler(h).pc = "cj_update"
  /\ emitted' = IF ConvExists(Handler(h).conversationId)
                THEN emitted
                ELSE Append(emitted, Event("message:error", None, None, NoUser,
                       "Failed to join conversation", ToSocket(Handler(h).sock)))
  /\ handlers' = Finish(h)
  /\ UNCHANGED <<sockets, activeConnections, rooms, dbVars, presenceVars,
                 typingVars, resets, received, nEvents>>

AgentJoinInvalid(s) ==
  /\ sockets[s] = "connected"
  /\ Accept("join")
  /\ emitted' = Append(emitted,
       Event("message:error", None, None, NoUser, "Invalid join data", ToSocket(s)))
  /\ UNCHANGED <<sockets, activeConnections, rooms, dbVars, presenceVars,
                 handlers, typingVars, resets, received>>

AgentJoin(s, agentId, conversationId) ==
  /\ sockets[s] = "connected"
  /\ Accept("join")
  /\ activeConnections' = [activeConnections EXCEPT ![s] =
       [conversationId |-> conversationId, userId |-> agentId, userType |-> "agent"]]
  /\ rooms' = Join(s, {ConvRoom(conversationId), AgentsRoom, AgentRoom(agentId)})
  /\ UNCHANGED <<sockets, dbVars, presenceVars, handlers, typingVars, emitted,
                 resets, received>>


\* ------------------------------------------------------ customer:message
SocketErrorNoTempId(s, tempId, text) ==
  Append(emitted, Event("message:error", None, None, NoUser, text, ToSocket(s)))

\* socket.emit("message:error", {tempId, error})
SocketError(s, tempId, text) ==
  Append(emitted, Event("message:error", None, tempId, NoUser, text, ToSocket(s)))

\* a customer:message or agent:message payload that was not accepted
Rejected(ev, s, tempId) ==
  [ev |-> ev, sock |-> s, conv |-> None, who |-> NoUser, at |-> now,
   room |-> Connected, pending |-> FALSE, tempId |-> tempId]

\* a payload object that fails CustomerMessageSchema
CustomerMessageInvalid(s) ==
  /\ sockets[s] = "connected"
  /\ Accept("message")
  /\ emitted' = SocketError(s, TempId, "Invalid message data")
  /\ received' = Append(received, Rejected("customer:message", s, TempId))
  /\ UNCHANGED <<sockets, activeConnections, rooms, dbVars, presenceVars,
                 handlers, typingVars, resets>>

\* the handler validates the payload and suspends at its first query
CustomerMessage(s, customerId, conversationId) ==
  /\ sockets[s] = "connected"
  /\ HasFreeSlot
  /\ Accept("message")
  /\ handlers' = Suspend("customer:message",
                         IF conversationId = None THEN "cm_findFirst" ELSE "cm_findUnique",
                         s, customerId, NoUser, conversationId, "", {})
  /\ UNCHANGED <<sockets, activeConnections, rooms, dbVars, presenceVars,
                 typingVars, emitted, resets, received>>

\* findFirst returns the customer's most recently updated open/assigned row
CmFindFirst(h) ==
  /\ Handler(h).pc = "cm_findFirst"
  /\ handlers' =
       IF FindFirstActive(Handler(h).customerId) = None
       THEN Goto(h, "cm_create")
       ELSE [handlers EXCEPT ![h].pc = "cm_update",
                             ![h].conv = Snapshot(FindFirstActive(Handler(h).customerId))]
  /\ UNCHANGED <<sockets, activeConnections, rooms, dbVars, presenceVars,
                 typingVars, emitted, resets, received, nEvents>>

NewConversation(customerId) ==
  [customerId |-> customerId, status |-> "open", agentId |-> NoUser, unreadCount |-> 1]

\* conversation.create returns the new row
CmCreate(h) ==
  /\ Handler(h).pc = "cm_create"
  /\ conversations' = Append(conversations, NewConversation(Handler(h).customerId))
  /\ recency' = <<Len(conversations) + 1>> \o recency
  /\ handlers' = [handlers EXCEPT
       ![h].pc = "cm_details",
       ![h].conv = [id |-> Len(conversations) + 1, customerId |-> Handler(h).customerId,
                    status |-> "open", agentId |-> NoUser]]
  /\ UNCHANGED <<sockets, activeConnections, rooms, messages, presenceVars,
                 typingVars, emitted, resets, received, nEvents>>

ListingToAll(ev, id) == Event(ev, id, LastMessageOf(id), NoUser, "listing", ToAll)

\* the listing shape: lastMessage inlined, the message collection stripped
Listing(ev, id) == Event(ev, id, LastMessageOf(id), NoUser, "listing", ToRoom(AgentsRoom))

\* findUnique of the new row returns: conversation:created goes to the agents,
\* the connection is updated and the socket joins the conversation room
CmDetails(h) ==
  /\ Handler(h).pc = "cm_details"
  /\ emitted' = Append(emitted, Listing("conversation:created", Handler(h).conv.id))
  /\ activeConnections' = AttachConversation(Handler(h).sock, Handler(h).conv.id)
  /\ rooms' = Join(Handler(h).sock, {ConvRoom(Handler(h).conv.id)})
  /\ handlers' = Goto(h, "cm_message")
  /\ UNCHANGED <<sockets, dbVars, presenceVars, typingVars, resets, received,
                 nEvents>>

\* conversation.update of the row found (name, email, updatedAt) returns
CmUpdate(h) ==
  /\ Handler(h).pc = "cm_update"
  /\ recency' = Touch(recency, Handler(h).conv.id)
  /\ activeConnections' = AttachConversation(Handler(h).sock, Handler(h).conv.id)
  /\ rooms' = Join(Handler(h).sock, {ConvRoom(Handler(h).conv.id)})
  /\ handlers' = [handlers EXCEPT ![h].pc = "cm_message",
                                  ![h].conv = Snapshot(Handler(h).conv.id)]
  /\ UNCHANGED <<sockets, conversations, messages, presenceVars, typingVars,
                 emitted, resets, received, nEvents>>

\* findUnique of the conversation the payload names returns
CmFindUnique(h) ==
  /\ Handler(h).pc = "cm_findUnique"
  /\ IF ConvExists(Handler(h).conversationId)
     THEN /\ handlers' = [handlers EXCEPT ![h].pc = "cm_message",
                                          ![h].conv = Snapshot(Handler(h).conversationId)]
          /\ UNCHANGED emitted
     ELSE /\ emitted' = SocketError(Handler(h).sock, Handler(h).tempId, "Conversation not found")
          /\ handlers' = Finish(h)
  /\ UNCHANGED <<sockets, activeConnections, rooms, dbVars, presenceVars,
                 typingVars, resets, received, nEvents>>

NewMessage(conversationId, senderId, senderType) ==
  [conversationId |-> conversationId, senderId |-> senderId,
   senderType |-> senderType, isRead |-> FALSE]

\* message.create returns the persisted message
CmMessage(h) ==
  /\ Handler(h).pc = "cm_message"
  /\ messages' = Append(messages,
       NewMessage(Handler(h).conv.id, Handler(h).customerId, "customer"))
  /\ handlers' = [handlers EXCEPT ![h].pc = "cm_increment",
                                  ![h].msg = Len(messages) + 1]
  /\ UNCHANGED <<sockets, activeConnections, rooms, conversations, recency,
                 presenceVars, typingVars, emitted, resets, received, nEvents>>

\* unreadCount: { increment: 1 }
IncrementUnread(n) == n + 1

Received(m, to) ==
  Event("message:received", messages[m].conversationId, m, messages[m].senderId,
        messages[m].senderType, to)

\* conversation.update (updatedAt, unreadCount + 1) returns; message:received
\* goes to the conversation room
CmIncrement(h) ==
  /\ Handler(h).pc = "cm_increment"
  /\ conversations' = [conversations EXCEPT
       ![Handler(h).conv.id].unreadCount = IncrementUnread(@)]
  /\ recency' = Touch(recency, Handler(h).conv.id)
  /\ emitted' = Append(emitted,
       Received(Handler(h).msg, ToRoom(ConvRoom(Handler(h).conv.id))))
  /\ handlers' = Goto(h, "cm_notify")
  /\ UNCHANGED <<sockets, activeConnections, rooms, messages, presenceVars,
                 typingVars, resets, received, nEvents>>

\* findUnique returns; conversation:updated goes to the agents
CmNotify(h) ==
  /\ Handler(h).pc = "cm_notify"
  /\ emitted' = Append(emitted, Listing("conversation:updated", Handler(h).conv.id))
  /\ handlers' = Finish(h)
  /\ UNCHANGED <<sockets, activeConnections, rooms, dbVars, presenceVars,
                 typingVars, resets, received, nEvents>>


\* --------------------------------------------------------- agent:message
\* a payload object that fails AgentMessageSchema
AgentMessageInvalid(s) ==
  /\ sockets[s] = "connected"
  /\ Accept("message")
  /\ emitted' = SocketError(s, TempId, "Invalid message data")
  /\ received' = Append(received, Rejected("agent:message", s, TempId))
  /\ UNCHANGED <<sockets, activeConnections, rooms, dbVars, presenceVars,
                 handlers, typingVars, resets>>

AgentMessage(s, agentId, conversationId) ==
  /\ sockets[s] = "connected"
  /\ HasFreeSlot
  /\ Accept("message")
  /\ handlers' = Suspend("agent:message", "am_agent", s, NoUser, agentId,
                         conversationId, "", {})
  /\ UNCHANGED <<sockets, activeConnections, rooms, dbVars, presenceVars,
                 typingVars, emitted, resets, received>>

\* agent.findUnique returns
AmAgent(h) ==
  /\ Handler(h).pc = "am_agent"
  /\ IF Handler(h).agentId \in Agents
     THEN /\ handlers' = Goto(h, "am_findUnique")
          /\ UNCHANGED emitted
     ELSE /\ emitted' = SocketError(Handler(h).sock, Handler(h).tempId, "Agent not found")
          /\ handlers' = Finish(h)
  /\ UNCHANGED <<sockets, activeConnections, rooms, dbVars, presenceVars,
                 typingVars, resets, received, nEvents>>

\* conversation.findUnique returns
AmFindUnique(h) ==
  /\ Handler(h).pc = "am_findUnique"
  /\ IF ConvExists(Handler(h).conversationId)
     THEN /\ handlers' = [handlers EXCEPT ![h].pc = "am_message",
                                          ![h].conv = Snapshot(Handler(h).conversationId)]
          /\ UNCHANGED emitted
     ELSE /\ emitted' = SocketError(Handler(h).sock, Handler(h).tempId, "Conversation not found")
          /\ handlers' = Finish(h)
  /\ UNCHANGED <<sockets, activeConnections, rooms, dbVars, presenceVars,
                 typingVars, resets, received, nEvents>>

\* message.create returns
AmMessage(h) ==
  /\ Handler(h).pc = "am_message"
  /\ messages' = Append(messages,
       NewMessage(Handler(h).conversationId, Handler(h).agentId, "agent"))
  /\ handlers' = [handlers EXCEPT ![h].pc = "am_assign",
                                  ![h].msg = Len(messages) + 1]
  /\ UNCHANGED <<sockets, activeConnections, rooms, conversations, recency,
                 presenceVars, typingVars, emitted, resets, received, nEvents>>

\* agentId: conversation.agentId || agentId, of the row as read at am_findUnique
ClaimedAgent(conv, agentId) == IF conv.agentId # NoUser THEN conv.agentId ELSE agentId

\* status: conversation.status === "open" ? "assigned" : conversation.status
ClaimedStatus(conv) == IF conv.status = "open" THEN "assigned" ELSE conv.status

AmDeliveriesRoomOnly(h) ==
  <<Received(Handler(h).msg, ToRoom(ConvRoom(Handler(h).conversationId)))>>

\* io.to(`conversation:${conversationId}`).emit, then
\* io.to(`customer:${conversation.customerId}`).emit
AmDeliveries(h) ==
  <<Received(Handler(h).msg, ToRoom(ConvRoom(Handler(h).conversationId))),
    Received(Handler(h).msg, ToRoom(CustomerRoom(Handler(h).conv.customerId)))>>

\* conversation.update returns; message:received goes to the conversation room
\* and to the customer's personal room
AmAssign(h) ==
  /\ Handler(h).pc = "am_assign"
  /\ conversations' = [conversations EXCEPT
       ![Handler(h).conversationId].agentId = ClaimedAgent(Handler(h).conv, Handler(h).agentId),
       ![Handler(h).conversationId].status = ClaimedStatus(Handler(h).conv)]
  /\ recency' = Touch(recency, Handler(h).conversationId)
  /\ emitted' = emitted \o AmDeliveries(h)
  /\ handlers' = Goto(h, "am_notify")
  /\ UNCHANGED <<sockets, activeConnections, rooms, messages, presenceVars,
                 typingVars, resets, received, nEvents>>

\* findUnique returns; conversation:updated carries the row with its messages
\* array (take 1) and no lastMessage
AmNotify(h) ==
  /\ Handler(h).pc = "am_notify"
  /\ emitted' = Append(emitted,
       Event("conversation:updated", Handler(h).conversationId,
             LastMessageOf(Handler(h).conversationId), NoUser, "messages",
             ToRoom(AgentsRoom)))
  /\ handlers' = Finish(h)
  /\ UNCHANGED <<sockets, activeConnections, rooms, dbVars, presenceVars,
                 typingVars, resets, received, nEvents>>

\* ---------------------------------------------------- messages:mark-read
\* a payload that fails MarkReadSchema is dropped silently
MarkReadInvalid(s) ==
  /\ sockets[s] = "connected"
  /\ Accept("message")
  /\ UNCHANGED <<sockets, activeConnections, rooms, dbVars, presenceVars,
                 handlers, typingVars, emitted, resets, received>>

MarkRead(s, conversationId, messageIds, readBy, readByType) ==
  /\ sockets[s] = "connected"
  /\ HasFreeSlot
  /\ Accept("message")
  /\ handlers' = Suspend("messages:mark-read", "mr_updateMany", s,
                         IF readByType = "customer" THEN readBy ELSE NoUser,
                         IF readByType = "agent" THEN readBy ELSE NoUser,
                         conversationId, readByType, messageIds)
  /\ UNCHANGED <<sockets, activeConnections, rooms, dbVars, presenceVars,
                 typingVars, emitted, resets, received>>

ReadBy(h) == IF Handler(h).readByType = "agent" THEN Handler(h).agentId
             ELSE Handler(h).customerId

ReadReceipt(h) ==
  Event("messages:read", Handler(h).conversationId, None, ReadBy(h), "",
        ToRoom(ConvRoom(Handler(h).conversationId)))

\* message.updateMany {id in messageIds, conversationId} returns
MrUpdateMany(h) ==
  /\ Handler(h).pc = "mr_updateMany"
  /\ messages' = [m \in 1..Len(messages) |->
       IF m \in Handler(h).messageIds
          /\ messages[m].conversationId = Handler(h).conversationId
       THEN [messages[m] EXCEPT !.isRead = TRUE]
       ELSE messages[m]]
  /\ IF Handler(h).readByType = "agent"
     THEN /\ handlers' = Goto(h, "mr_reset")
          /\ UNCHANGED emitted
     ELSE /\ emitted' = Append(emitted, ReadReceipt(h))
          /\ handlers' = Finish(h)
  /\ UNCHANGED <<sockets, activeConnections, rooms, conversations, recency,
                 presenceVars, typingVars, resets, received, nEvents>>

ResetUnreadKept(n) == n

\* data: { unreadCount: 0 }
ResetUnread(n) == 0

\* conversation.update {unreadCount: 0} returns, or throws for a missing row
\* (caught and logged: no receipt)
MrReset(h) ==
  /\ Handler(h).pc = "mr_reset"
  /\ IF ConvExists(Handler(h).conversationId)
     THEN /\ conversations' = [conversations EXCEPT
               ![Handler(h).conversationId].unreadCount = ResetUnread(@)]
          /\ resets' = resets \cup {Handler(h).conversationId}
          /\ emitted' = Append(emitted, ReadReceipt(h))
     ELSE UNCHANGED <<conversations, resets, emitted>>
  /\ handlers' = Finish(h)
  /\ UNCHANGED <<sockets, activeConnections, rooms, recency, messages,
                 presenceVars, typingVars, received, nEvents>>

\* -------------------------------------------------------- server actions
\* each is one conversation.update; the update of a missing row throws and
\* the action returns {success: false}
AssignConversation(id, agentId) ==
  /\ ConvExists(id)
  /\ Accept("action")
  /\ conversations' = [conversations EXCEPT ![id].agentId = agentId,
                                            ![id].status = "assigned"]
  /\ UNCHANGED <<sockets, activeConnections, rooms, recency, messages,
                 presenceVars, handlers, typingVars, emitted, resets, received>>

UpdateConversationStatus(id, status) ==
  /\ ConvExists(id)
  /\ Accept("action")
  /\ conversations' = [conversations EXCEPT ![id].status = status]
  /\ UNCHANGED <<sockets, activeConnections, rooms, recency, messages,
                 presenceVars, handlers, typingVars, emitted, resets, received>>

CloseConversation(id) ==
  /\ ConvExists(id)
  /\ Accept("action")
  /\ conversations' = [conversations EXCEPT ![id].status = "closed"]
  /\ UNCHANGED <<sockets, activeConnections, rooms, recency, messages,
                 presenceVars, handlers, typingVars, emitted, resets, received>>

ReopenConversation(id, agentId) ==
  /\ ConvExists(id)
  /\ Accept("action")
  /\ conversations' = [conversations EXCEPT ![id].status = "assigned",
                                            ![id].agentId = agentId]
  /\ UNCHANGED <<sockets, activeConnections, rooms, recency, messages,
                 presenceVars, handlers, typingVars, emitted, resets, received>>


\* ---------------------------------------------------------------- typing
\* typingKey = `${conversationId}:${senderId}`
TypingKey(conversationId, senderId) == <<conversationId, senderId>>

HasTimer(key) == key \in DOMAIN typingUsers

ClearExistingForgotten(key) == timers

\* clearTimeout(existingTimeout): the handle the map holds for the key
ClearExisting(key) ==
  IF HasTimer(key) THEN {t \in timers : t.id # typingUsers[key]} ELSE timers

Typing(ev, t, to) == Event(ev, t.conversationId, None, t.senderId, t.senderType, to)

\* socket.to(`conversation:${conversationId}`).emit("typing:start", ...)
StartBroadcast(s, t) ==
  Append(emitted, Typing("typing:start", t, ToRoomExcept(ConvRoom(t.conversationId), s)))

\* the body shared by the customer:typing and agent:typing handlers
TypingSignal(s, conversationId, senderId, senderType) ==
  LET key == TypingKey(conversationId, senderId)
      timer == [id |-> nextTimer, sock |-> s, conversationId |-> conversationId,
                senderId |-> senderId, senderType |-> senderType,
                deadline |-> now + TypingTimeout]
  IN /\ sockets[s] = "connected"
     /\ Accept("typing")
     /\ emitted' = StartBroadcast(s, timer)
     /\ timers' = ClearExisting(key) \cup {timer}
     /\ typingUsers' = [k \in DOMAIN typingUsers \cup {key} |->
                          IF k = key THEN nextTimer ELSE typingUsers[k]]
     /\ nextTimer' = nextTimer + 1
     /\ received' = Append(received,
          [ev |-> "typing", sock |-> s, conv |-> conversationId, who |-> senderId,
           at |-> now, room |-> Members(ConvRoom(conversationId)),
           pending |-> HasTimer(key)])
     /\ UNCHANGED <<sockets, activeConnections, rooms, dbVars, presenceVars,
                    handlers, resets, now>>

CustomerTyping(s, conversationId, senderId, senderType) ==
  TypingSignal(s, conversationId, senderId, senderType)

AgentTyping(s, conversationId, senderId, senderType) ==
  TypingSignal(s, conversationId, senderId, senderType)

\* a payload that fails TypingSchema is dropped silently
TypingInvalid(s) ==
  /\ sockets[s] = "connected"
  /\ Accept("typing")
  /\ UNCHANGED <<sockets, activeConnections, rooms, dbVars, presenceVars,
                 handlers, typingVars, emitted, resets, received>>

\* the setTimeout callback: typing:stop, then typingUsers.delete(typingKey)
TimerFire(t) ==
  /\ t \in timers
  /\ now >= t.deadline
  /\ emitted' = Append(emitted,
       Typing("typing:stop", t, ToRoomExcept(ConvRoom(t.conversationId), t.sock)))
  /\ typingUsers' = [k \in DOMAIN typingUsers \ {TypingKey(t.conversationId, t.senderId)}
                       |-> typingUsers[k]]
  /\ timers' = timers \ {t}
  /\ UNCHANGED <<sockets, activeConnections, rooms, dbVars, presenceVars,
                 handlers, nextTimer, now, resets, received, nEvents>>

Tick ==
  /\ now < MaxTime
  /\ now' = now + 1
  /\ UNCHANGED <<sockets, activeConnections, rooms, dbVars, presenceVars,
                 handlers, typingUsers, timers, nextTimer, emitted, resets,
                 received, nEvents>>

\* -------------------------------------------------------------- presence
StatusText(isOnline) == IF isOnline THEN "online" ELSE "offline"

\* io.emit("agent:status", {agentId, isOnline, lastSeen})
AgentStatus(agentId, isOnline, to) ==
  Event("agent:status", None, None, agentId, StatusText(isOnline), to)

BroadcastStatusIfStored(agentId, isOnline, to) ==
  IF agentId \in Agents
  THEN Append(emitted, AgentStatus(agentId, isOnline, to))
  ELSE emitted

\* io.emit("agent:status", ...), whatever becomes of the write
BroadcastStatus(agentId, isOnline, to) ==
  Append(emitted, AgentStatus(agentId, isOnline, to))

\* prisma.agent.update(...).catch(...): issued, not awaited
IssuePresenceWrite(agentId, isOnline) ==
  Append(presenceWrites, [agentId |-> agentId, isOnline |-> isOnline])

\* an agent:online or agent:offline event as received
Presence(ev, s, agentId) ==
  [ev |-> ev, sock |-> s, conv |-> None, who |-> agentId, at |-> now,
   room |-> Connected, pending |-> FALSE]

AgentOnline(s, agentId) ==
  /\ sockets[s] = "connected"
  /\ Accept("presence")
  /\ received' = Append(received, Presence("agent:online", s, agentId))
  /\ presenceWrites' = IssuePresenceWrite(agentId, TRUE)
  /\ rooms' = Join(s, {AgentsRoom, AgentRoom(agentId)})
  /\ emitted' = BroadcastStatus(agentId, TRUE, ToAll)
  /\ UNCHANGED <<sockets, activeConnections, dbVars, agentOnline, handlers,
                 typingVars, resets>>

AgentOffline(s, agentId) ==
  /\ sockets[s] = "connected"
  /\ Accept("presence")
  /\ received' = Append(received, Presence("agent:offline", s, agentId))
  /\ presenceWrites' = IssuePresenceWrite(agentId, FALSE)
  /\ emitted' = BroadcastStatus(agentId, FALSE, ToAll)
  /\ UNCHANGED <<sockets, activeConnections, rooms, dbVars, agentOnline,
                 handlers, typingVars, resets>>

Without(seq, i) == SubSeq(seq, 1, i - 1) \o SubSeq(seq, i + 1, Len(seq))

\* an issued write completes; the update of a missing Agent row rejects
PresenceWriteDone(i) ==
  /\ i \in 1..Len(presenceWrites)
  /\ agentOnline' = IF presenceWrites[i].agentId \in Agents
                    THEN [agentOnline EXCEPT ![presenceWrites[i].agentId] =
                            presenceWrites[i].isOnline]
                    ELSE agentOnline
  /\ presenceWrites' = Without(presenceWrites, i)
  /\ UNCHANGED <<sockets, activeConnections, rooms, dbVars, handlers,
                 typingVars, emitted, resets, received, nEvents>>

\* an issued write rejects (storage outage): .catch logs a warning
PresenceWriteFailed(i) ==
  /\ i \in 1..Len(presenceWrites)
  /\ presenceWrites' = Without(presenceWrites, i)
  /\ UNCHANGED <<sockets, activeConnections, rooms, dbVars, agentOnline,
                 handlers, typingVars, emitted, resets, received, nEvents>>

\* ------------------------------------------------------------ disconnect
\* key.includes(socket.id)
KeyIncludes(key, s) == key[2] = s

ClearedKeys(s) == {k \in DOMAIN typingUsers : KeyIncludes(k, s)}

OfflineOnDisconnectAny(conn) == conn # NoConn

\* whether the disconnect handler marks the agent offline
OfflineOnDisconnect(conn) == conn # NoConn /\ conn.userType = "agent"

\* the socket has left its rooms and the namespace when the handler runs
Disconnect(s) ==
  /\ sockets[s] = "connected"
  /\ sockets' = [sockets EXCEPT ![s] = "closed"]
  /\ rooms' = [rooms EXCEPT ![s] = {}]
  /\ IF OfflineOnDisconnect(activeConnections[s])
     THEN /\ presenceWrites' = IssuePresenceWrite(activeConnections[s].userId, FALSE)
          /\ emitted' = BroadcastStatus(activeConnections[s].userId, FALSE, ToAll \ {s})
     ELSE UNCHANGED <<presenceWrites, emitted>>
  /\ activeConnections' = [activeConnections EXCEPT ![s] = NoConn]
  /\ timers' = {t \in timers : \A k \in ClearedKeys(s) : t.id # typingUsers[k]}
  /\ typingUsers' = [k \in DOMAIN typingUsers \ ClearedKeys(s) |-> typingUsers[k]]
  /\ UNCHANGED <<dbVars, agentOnline, handlers, nextTimer, now, resets,
                 received, nEvents>>


\* ---------------------------------------------------------------- faults
\* the process ends: every connection drops and the in-memory state is gone
ProcessExit ==
  /\ sockets' = [s \in Sockets |-> IF sockets[s] = "connected" THEN "closed"
                                    ELSE sockets[s]]
  /\ activeConnections' = [s \in Sockets |-> NoConn]
  /\ rooms' = [s \in Sockets |-> {}]
  /\ handlers' = [h \in Handlers |-> IdleHandler]
  /\ typingUsers' = <<>>
  /\ timers' = {}
  /\ presenceWrites' = <<>>

\* the async handler rejects and nothing handles the rejection: the runtime
\* prints a warning or ends the process, depending on its version and flags
UnhandledRejection ==
  \/ UNCHANGED <<sockets, activeConnections, rooms, handlers, typingUsers,
                 timers, presenceWrites>>
  \/ ProcessExit

\* customer:message with no payload (data is undefined or null): safeParse
\* fails, data.tempId throws, and data.tempId throws again inside the catch
CustomerMessageNoPayload(s) ==
  /\ sockets[s] = "connected"
  /\ Accept("message")
  /\ received' = Append(received, Rejected("customer:message", s, None))
  /\ UnhandledRejection
  /\ UNCHANGED <<dbVars, agentOnline, nextTimer, now, emitted, resets>>

\* agent:message with no payload
AgentMessageNoPayload(s) ==
  /\ sockets[s] = "connected"
  /\ Accept("message")
  /\ received' = Append(received, Rejected("agent:message", s, None))
  /\ UnhandledRejection
  /\ UNCHANGED <<dbVars, agentOnline, nextTimer, now, emitted, resets>>

PersistenceFailsSilently(h) ==
  /\ Handler(h).kind # "idle"
  /\ handlers' = Finish(h)
  /\ UNCHANGED <<sockets, activeConnections, rooms, dbVars, presenceVars,
                 typingVars, emitted, resets, received, nEvents>>

\* the database call the handler is suspended at rejects: the call has no
\* effect and the handler's catch block runs
PersistenceFails(h) ==
  /\ Handler(h).kind # "idle"
  /\ emitted' =
       CASE Handler(h).kind \in {"customer:message", "agent:message"} ->
              SocketError(Handler(h).sock, Handler(h).tempId, "Failed to send message")
         [] Handler(h).kind = "customer:join" ->
              Append(emitted, Event("message:error", None, None, NoUser,
                "Failed to join conversation", ToSocket(Handler(h).sock)))
         [] OTHER -> emitted
  /\ handlers' = Finish(h)
  /\ UNCHANGED <<sockets, activeConnections, rooms, dbVars, presenceVars,
                 typingVars, resets, received, nEvents>>


\* -------------------------------------------------------- specifications
\* agent ids a payload may carry: the Agent rows and one id with no row
UnknownAgent == "a0"
AgentIds == Agents \cup {UnknownAgent}

Statuses == {"open", "assigned", "closed"}

Lifecycle ==
  \/ \E s \in Sockets : Connect(s)
  \/ \E s \in Sockets : Disconnect(s)

Joins(infos) ==
  \/ \E s \in Sockets : CustomerJoinInvalid(s)
  \/ \E s \in Sockets, c \in Customers, id \in ConvIds \cup {None}, i \in infos :
       CustomerJoin(s, c, id, i)
  \/ \E s \in Sockets : AgentJoinInvalid(s)
  \/ \E s \in Sockets, a \in AgentIds, id \in ConvIds : AgentJoin(s, a, id)

MessageEvents ==
  \/ \E s \in Sockets : CustomerMessageInvalid(s)
  \/ \E s \in Sockets, c \in Customers, id \in ConvIds \cup {None} :
       CustomerMessage(s, c, id)
  \/ \E s \in Sockets : AgentMessageInvalid(s)
  \/ \E s \in Sockets, a \in AgentIds, id \in ConvIds : AgentMessage(s, a, id)
  \/ \E s \in Sockets : MarkReadInvalid(s)
  \/ \E s \in Sockets, id \in ConvIds, ms \in SUBSET (1..Len(messages)),
        a \in Agents : MarkRead(s, id, ms, a, "agent")
  \/ \E s \in Sockets, id \in ConvIds, ms \in SUBSET (1..Len(messages)),
        c \in Customers : MarkRead(s, id, ms, c, "customer")

ServerActions ==
  \/ \E id \in ConvIds, a \in Agents : AssignConversation(id, a)
  \/ \E id \in ConvIds, st \in Statuses : UpdateConversationStatus(id, st)
  \/ \E id \in ConvIds : CloseConversation(id)
  \/ \E id \in ConvIds, a \in Agents : ReopenConversation(id, a)

Resumes ==
  \E h \in Handlers :
    \/ CjUpdate(h)
    \/ CmFindFirst(h)
    \/ CmCreate(h)
    \/ CmDetails(h)
    \/ CmUpdate(h)
    \/ CmFindUnique(h)
    \/ CmMessage(h)
    \/ CmIncrement(h)
    \/ CmNotify(h)
    \/ AmAgent(h)
    \/ AmFindUnique(h)
    \/ AmMessage(h)
    \/ AmAssign(h)
    \/ AmNotify(h)
    \/ MrUpdateMany(h)
    \/ MrReset(h)

\* the joins the widget and the dashboard send: the widget joins without a
\* conversation or with its conversation and the customer's name, the
\* dashboard joins as an agent with the conversation it shows
Arrivals ==
  \/ \E s \in Sockets, c \in Customers : CustomerJoin(s, c, None, FALSE)
  \/ \E s \in Sockets, c \in Customers, id \in ConvIds : CustomerJoin(s, c, id, TRUE)
  \/ \E s \in Sockets, a \in Agents, id \in ConvIds : AgentJoin(s, a, id)

\* the message pipeline: a client joins before it sends messages, and the
\* handlers interleave at every await
Next ==
  \/ Lifecycle
  \/ (Within("join", MaxJoins) /\ nEvents["message"] = 0) /\ Arrivals
  \/ Within("message", MaxEvents) /\ MessageEvents
  \/ Resumes

Spec == Init /\ [][Next]_vars

\* the pipeline and the server actions, with no two operations overlapping;
\* a client joins before it sends messages
NextSeq ==
  \/ AllIdle /\ Lifecycle
  \/ (AllIdle /\ Within("join", SeqJoins) /\ nEvents["message"] = 0) /\ Arrivals
  \/ AllIdle /\ Within("message", SeqEvents) /\ MessageEvents
  \/ AllIdle /\ Within("action", SeqActions) /\ ServerActions
  \/ Resumes

SpecSeq == Init /\ [][NextSeq]_vars

\* sender ids a typing payload may carry: the widget sends its customerId
\* with customer:typing, the dashboard its agentId with agent:typing
SenderIds == Customers \cup Agents

TypingEvents ==
  \/ \E s \in Sockets : TypingInvalid(s)
  \/ \E s \in Sockets, id \in ConvIds, u \in Customers :
       CustomerTyping(s, id, u, "customer")
  \/ \E s \in Sockets, id \in ConvIds, u \in Agents :
       AgentTyping(s, id, u, "agent")

\* a socket joins a conversation room and watches it
Watching ==
  \/ \E s \in Sockets, c \in Customers, id \in ConvIds : CustomerJoin(s, c, id, FALSE)
  \/ \E s \in Sockets, a \in Agents, id \in ConvIds : AgentJoin(s, a, id)

\* the typing coordinator: the watchers join before anyone types, and the
\* clock is followed while a timer is armed (with none armed it has no
\* effect)
NextTyping ==
  \/ Lifecycle
  \/ (Within("join", TypingJoins) /\ nEvents["typing"] = 0) /\ Watching
  \/ Within("typing", MaxTypingEvents) /\ TypingEvents
  \/ \E t \in timers : TimerFire(t)
  \/ timers # {} /\ Tick

SpecTyping == Init /\ [][NextTyping]_vars

PresenceEvents ==
  \/ \E s \in Sockets, a \in AgentIds : AgentOnline(s, a)
  \/ \E s \in Sockets, a \in AgentIds : AgentOffline(s, a)

\* the presence tracker; the sockets that watch join first
NextPresence ==
  \/ Lifecycle
  \/ (Within("join", PresenceJoins) /\ nEvents["presence"] = 0) /\ Watching
  \/ Within("presence", MaxPresenceEvents) /\ PresenceEvents
  \/ \E i \in 1..Len(presenceWrites) : PresenceWriteDone(i)
  \/ \E i \in 1..Len(presenceWrites) : PresenceWriteFailed(i)

SpecPresence == Init /\ [][NextPresence]_vars


NoPayloadEvents ==
  \/ \E s \in Sockets : CustomerMessageNoPayload(s)
  \/ \E s \in Sockets : AgentMessageNoPayload(s)

\* the pipeline under payloads of any kind and a failing database, with no
\* two operations overlapping; a client joins before it sends messages
NextFaults ==
  \/ AllIdle /\ Lifecycle
  \/ (AllIdle /\ Within("join", FaultJoins) /\ nEvents["message"] = 0) /\ Arrivals
  \/ AllIdle /\ Within("message", FaultEvents) /\ MessageEvents
  \/ AllIdle /\ Within("message", FaultEvents) /\ NoPayloadEvents
  \/ Resumes
  \/ \E h \in Handlers : PersistenceFails(h)

SpecFaults == Init /\ [][NextFaults]_vars

\* a customer opens a conversation: the first message, with no conversationId
Opening ==
  \E s \in Sockets, c \in Customers : CustomerMessage(s, c, None)

OpeningResumes ==
  \E h \in Handlers :
    \/ CmFindFirst(h)
    \/ CmCreate(h)
    \/ CmDetails(h)
    \/ CmMessage(h)
    \/ CmIncrement(h)
    \/ CmNotify(h)

Replies ==
  \E s \in Sockets, a \in Agents, id \in ConvIds : AgentMessage(s, a, id)

ReplyResumes ==
  \E h \in Handlers :
    \/ AmAgent(h)
    \/ AmFindUnique(h)
    \/ AmMessage(h)
    \/ AmAssign(h)
    \/ AmNotify(h)

\* agents replying to a conversation a customer has opened, their handlers
\* interleaving at every await
NextReplies ==
  \/ Lifecycle
  \/ (conversations = <<>> /\ AllIdle) /\ Opening
  \/ Within("message", MaxReplies + 1) /\ Replies
  \/ OpeningResumes
  \/ ReplyResumes

SpecReplies == Init /\ [][NextReplies]_vars

ResolverResumes ==
  \/ OpeningResumes
  \/ \E h \in Handlers : CmUpdate(h)

\* the conversation resolver: customers writing without a conversationId
\* while conversations are closed and reopened, one operation at a time
NextResolver ==
  \/ AllIdle /\ Lifecycle
  \/ AllIdle /\ Within("message", ResolverEvents) /\ Opening
  \/ AllIdle /\ Within("action", ResolverActions) /\ ServerActions
  \/ ResolverResumes

SpecResolver == Init /\ [][NextResolver]_vars


\* ================================================================ claims
ActiveConversations(customerId) ==
  {id \in 1..Len(conversations) :
     /\ conversations[id].customerId = customerId
     /\ IsActive(conversations[id].status)}

\* C1: under any interleaving of customer:message handlers that carry no
\* conversationId, every customer has at most one conversation with status
\* open or assigned in every reachable state (two concurrent first messages
\* of one new customer give exactly one Conversation row).
C1_OneActivePerCustomer ==
  \A c \in Customers : Cardinality(ActiveConversations(c)) <= 1

\* C2: after any sequence of non-overlapping customer messages, agent
\* messages, assign, close, status-update and reopen operations, every
\* customer has at most one conversation in status open or assigned.
C2_OneActiveAfterSequentialOps ==
  AllIdle => \A c \in Customers :
               \A i, j \in ActiveConversations(c) : i = j

\* the positions of the message:received events delivered to socket s
Deliveries(s) ==
  {i \in 1..Len(emitted) : emitted[i].ev = "message:received" /\ s \in emitted[i].to}

\* C3: message:received events reach every socket in the order in which the
\* Message rows were persisted: no socket receives a message of a
\* conversation before a message of that conversation persisted earlier.
C3_DeliveredInPersistedOrder ==
  \A s \in Sockets : \A i, j \in Deliveries(s) :
    (i < j /\ emitted[i].conv = emitted[j].conv) => emitted[i].ref <= emitted[j].ref

CustomerMessagesOf(id) == {m \in MessagesOf(id) : messages[m].senderType = "customer"}

\* C4: once n customer:message events have been handled one after another
\* for a conversation, with no mark-read in between, its unreadCount is n.
C4_UnreadCountsCustomerMessages ==
  \A id \in 1..Len(conversations) :
    (AllIdle /\ id \notin resets)
      => conversations[id].unreadCount = Cardinality(CustomerMessagesOf(id))

MarkReadStep(h) ==
  /\ handlers[h].kind = "messages:mark-read"
  /\ handlers'[h] # handlers[h]
  /\ ConvExists(handlers[h].conversationId)

\* C5: a mark-read by an agent for an existing conversation ends with that
\* conversation's unreadCount at 0, whatever it was, and no step of a
\* mark-read by a customer changes unreadCount.
C5_MarkReadResetsOnlyForAgent ==
  [][\A h \in Handlers :
       MarkReadStep(h) =>
         IF handlers[h].readByType = "agent" /\ handlers'[h].kind = "idle"
         THEN conversations'[handlers[h].conversationId].unreadCount = 0
         ELSE conversations'[handlers[h].conversationId].unreadCount
                = conversations[handlers[h].conversationId].unreadCount]_vars

\* an agent's mark-read has completed on a conversation with unread messages
C5_Witness ==
  \E id \in resets :
    /\ CustomerMessagesOf(id) # {}
    /\ conversations[id].unreadCount = 0
    /\ \E i \in 1..Len(emitted) :
         emitted[i].ev = "messages:read" /\ emitted[i].conv = id


\* ---------------------------------------------------------- typing claims
TypingKeys == {TypingKey(id, u) : id \in ConvIds, u \in SenderIds}

\* the typing events received for the key, oldest first
SignalsOf(k) ==
  SelectSeq(received, LAMBDA r : r.ev = "typing" /\ r.conv = k[1] /\ r.who = k[2])

\* the typing:start and typing:stop broadcasts of the key, oldest first
TypingLog(k) ==
  SelectSeq(emitted, LAMBDA e : /\ e.ev \in {"typing:start", "typing:stop"}
                                /\ e.conv = k[1] /\ e.who = k[2])

NumStarts(k) == Len(SelectSeq(TypingLog(k), LAMBDA e : e.ev = "typing:start"))
NumStops(k) == Len(SelectSeq(TypingLog(k), LAMBDA e : e.ev = "typing:stop"))

Refreshed(k) == Len(SignalsOf(k)) = 2 /\ SignalsOf(k)[2].pending

\* C7: two typing events for one key, the second before the first timer
\* fires, produce exactly one typing:start broadcast: the second event only
\* refreshes the session.
C7_RefreshEmitsOneStart ==
  \A k \in TypingKeys : Refreshed(k) => NumStarts(k) = 1

\* the typing events of the key that opened a session (no timer was armed)
Bursts(k) == Len(SelectSeq(SignalsOf(k), LAMBDA r : ~r.pending))

\* how many of the first i entries of the log are typing:start
StartIndex(log, i) == Cardinality({n \in 1..i : log[n].ev = "typing:start"})

LastReceived == received'[Len(received')]

\* C9: an agent:online or agent:offline event is answered at once by an
\* agent:status broadcast with the matching isOnline to all connected
\* sockets, while the write is still in flight; a write that completes or
\* fails later emits nothing and closes no socket.
C9_PresenceBroadcastWhateverPersistence ==
  [][/\ (Len(received') = Len(received) + 1
           /\ LastReceived.ev \in {"agent:online", "agent:offline"})
        => emitted' = Append(emitted,
             Event("agent:status", None, None, LastReceived.who,
                   IF LastReceived.ev = "agent:online" THEN "online" ELSE "offline",
                   Connected))
     /\ Len(presenceWrites') < Len(presenceWrites)
        => emitted' = emitted /\ sockets' = sockets]_vars

\* the write of the one agent:online received has failed, and the broadcast
\* has reached a socket
C9_Witness ==
  /\ nEvents["presence"] = 1
  /\ presenceWrites = <<>>
  /\ \E a \in Agents :
       /\ ~agentOnline[a]
       /\ \E i \in 1..Len(received) : received[i].ev = "agent:online" /\ received[i].who = a
       /\ \E i \in 1..Len(emitted) :
            /\ emitted[i].ev = "agent:status" /\ emitted[i].who = a
            /\ emitted[i].val = "online" /\ emitted[i].to # {}

\* C10: a disconnect broadcasts agent:status offline for the socket's userId
\* exactly once if its registry entry has userType agent; the disconnect of a
\* socket registered as customer, or not registered, emits nothing.
C10_OfflineOnAgentDisconnectOnly ==
  [][\A s \in Sockets :
       (sockets[s] = "connected" /\ sockets'[s] = "closed") =>
         IF activeConnections[s].userType = "agent"
         THEN emitted' = Append(emitted,
                Event("agent:status", None, None, activeConnections[s].userId,
                      "offline", Connected \ {s}))
         ELSE emitted' = emitted]_vars

\* an agent socket has disconnected and another socket has been told so;
\* that socket, which has no registry entry, has disconnected too
C10_Witness ==
  /\ nEvents["presence"] = 0
  /\ \A s \in Sockets : sockets[s] = "closed"
  /\ \E i \in 1..Len(emitted) :
       /\ emitted[i].ev = "agent:status" /\ emitted[i].val = "offline"
       /\ emitted[i].to # {}
  /\ Len(SelectSeq(emitted, LAMBDA e : e.ev = "agent:status")) = 1


\* ------------------------------------------------------- pipeline claims
MessageKinds == {"customer:message", "agent:message"}

\* handler h takes a step
Steps(h) == handlers'[h] # handlers[h]

\* handler h resumes from the lookup of a conversation that does not exist
NotFoundStep(h) ==
  /\ handlers[h].kind \in MessageKinds
  /\ handlers[h].pc \in {"cm_findUnique", "am_findUnique"}
  /\ handlers[h].conversationId \notin 1..Len(conversations)
  /\ Steps(h)

\* C11: a valid customer:message or agent:message naming a conversation that
\* does not exist ends with exactly one message:error carrying the payload's
\* tempId, sent to the sending socket only; no Message row is created, no
\* Conversation changes, and the handler emits nothing else.
C11_UnknownConversationRejected ==
  [][\A h \in Handlers :
       NotFoundStep(h) =>
         /\ emitted' = Append(emitted,
              [ev |-> "message:error", conv |-> None, ref |-> handlers[h].tempId,
               who |-> NoUser, val |-> "Conversation not found",
               to |-> {handlers[h].sock} \cap Connected])
         /\ handlers[h].tempId # None
         /\ messages' = messages
         /\ conversations' = conversations
         /\ handlers'[h].kind = "idle"]_vars

\* a message for a conversation that does not exist has been answered, from a
\* customer and from an agent, and nothing has been persisted
C11_Witness ==
  /\ messages = <<>>
  /\ conversations = <<>>
  /\ AllIdle
  /\ Len(emitted) = 2
  /\ \A i \in 1..2 : /\ emitted[i].val = "Conversation not found"
                      /\ emitted[i].ref = i
                      /\ emitted[i].to # {}
  /\ \E s \in Sockets : activeConnections[s].userType = "agent"

AgentMessagesOf(id) == {m \in MessagesOf(id) : messages[m].senderType = "agent"}

\* the first agent message persisted into the conversation
FirstReply(id) == CHOOSE m \in AgentMessagesOf(id) : \A n \in AgentMessagesOf(id) : m <= n

\* the handler that persisted message m has not completed
InFlight(m) == \E h \in Handlers : handlers[h].msg = m

\* C12: the first agent whose reply is persisted into an open conversation
\* claims it: once that agent:message has completed the conversation is
\* assigned to that agent, and no agent:message, later or interleaved,
\* changes an agentId that is set.
C12_FirstResponderKeepsConversation ==
  [][\A id \in 1..Len(conversations) :
       /\ (AgentMessagesOf(id) # {} /\ ~InFlight(FirstReply(id)))
            => /\ conversations[id].status = "assigned"
               /\ conversations[id].agentId = messages[FirstReply(id)].senderId
       /\ conversations[id].agentId # NoUser
            => conversations'[id].agentId = conversations[id].agentId]_vars

\* C13: the step that broadcasts a persisted agent message delivers
\* message:received with that message to every socket in the personal room
\* of the conversation's customer, whether or not the socket is in the
\* conversation room.
C13_AgentMessageReachesCustomerRoom ==
  [][\A h \in Handlers :
       (handlers[h].kind = "agent:message" /\ handlers[h].pc = "am_assign" /\ Steps(h))
         => \A s \in Connected :
              CustomerRoom(conversations[handlers[h].conversationId].customerId) \in rooms[s]
                => \E i \in Len(emitted) + 1 .. Len(emitted') :
                     /\ emitted'[i].ev = "message:received"
                     /\ emitted'[i].ref = handlers[h].msg
                     /\ s \in emitted'[i].to]_vars

\* an agent message has reached a customer socket that is in the customer's
\* personal room and not in the conversation room
C13_Witness ==
  \E i \in 1..Len(emitted) : \E s \in emitted[i].to :
    /\ emitted[i].ev = "message:received"
    /\ messages[emitted[i].ref].senderType = "agent"
    /\ CustomerRoom(conversations[emitted[i].conv].customerId) \in rooms[s]
    /\ ConvRoom(emitted[i].conv) \notin rooms[s]

\* C14: a customer:message or agent:message whose payload fails validation
\* is answered by exactly one message:error with the payload's tempId, sent
\* to the originating socket only, and changes neither the tables, nor the
\* Connection Registry, nor room membership, nor the typing-timer map.
C14_InvalidPayloadOnlyAnswered ==
  [][(Len(received') = Len(received) + 1 /\ LastReceived.ev \in MessageKinds)
       => /\ emitted' = Append(emitted,
               [ev |-> "message:error", conv |-> None, ref |-> LastReceived.tempId,
                who |-> NoUser, val |-> "Invalid message data",
                to |-> {LastReceived.sock}])
          /\ UNCHANGED <<conversations, messages, activeConnections, rooms,
                         typingUsers>>]_vars

\* C15: once a socket has disconnected no typing timer armed by one of its
\* typing events is still armed, and the typing-timer map holds no entry
\* that it created.
C15_NoTimerOutlivesItsSocket ==
  /\ \A t \in timers : sockets[t.sock] = "connected"
  /\ \A k \in DOMAIN typingUsers :
       \E t \in timers : t.id = typingUsers[k] /\ sockets[t.sock] = "connected"

\* C16: the Connection Registry holds an entry only for a connected socket:
\* the disconnect removes it and no handler that resumes afterwards puts it
\* back.
C16_RegistryOnlyForConnected ==
  \A s \in Sockets : activeConnections[s] # NoConn => sockets[s] = "connected"

\* a customer:message handler has gone past its update of the registry on a
\* socket that has disconnected, and the registry has no entry for it
C16_Witness ==
  \E h \in Handlers :
    /\ handlers[h].kind = "customer:message"
    /\ handlers[h].conversationId = None
    /\ handlers[h].pc \in {"cm_message", "cm_increment", "cm_notify"}
    /\ sockets[handlers[h].sock] = "closed"
    /\ activeConnections[handlers[h].sock] = NoConn

\* the place of the conversation in the order of last update, 1 the latest
Pos(id) == CHOOSE i \in 1..Len(recency) : recency[i] = id

\* handler h of a customer:message that names no conversation takes a step
ResolvingStep(h) ==
  /\ handlers[h].kind = "customer:message"
  /\ handlers[h].conversationId = None
  /\ Steps(h)

\* C17: a customer:message without conversationId, handled while the
\* customer has a conversation in status open or assigned, resolves to the
\* most recently updated of them and is persisted into it; a Conversation is
\* created, and conversation:created broadcast, only for a customer who has
\* no other active conversation.
C17_ReusesLatestActiveConversation ==
  [][\A h \in Handlers :
       ResolvingStep(h) =>
         LET c == handlers[h].customerId
             found == handlers'[h].conv.id
         IN /\ (handlers[h].pc = "cm_findFirst" /\ ActiveConversations(c) # {})
                 => /\ found \in ActiveConversations(c)
                    /\ \A j \in ActiveConversations(c) : Pos(found) <= Pos(j)
                    /\ handlers'[h].pc = "cm_update"
            /\ Len(conversations') > Len(conversations)
                 => ActiveConversations(c) = {}
            /\ \A i \in Len(emitted) + 1 .. Len(emitted') :
                 emitted'[i].ev = "conversation:created"
                   => ActiveConversations(c) = {emitted'[i].conv}
            /\ Len(messages') > Len(messages)
                 => /\ messages'[Len(messages')].conversationId = handlers[h].conv.id
                    /\ handlers[h].conv.id \in ActiveConversations(c)]_vars

\* a closed conversation has been reopened beside a newer one, and the
\* customer's next message has gone into the later updated of the two
C17_Witness ==
  \E h \in Handlers :
    /\ handlers[h].kind = "customer:message"
    /\ handlers[h].conversationId = None
    /\ handlers[h].pc = "cm_increment"
    /\ Len(conversations) = 2
    /\ ActiveConversations(handlers[h].customerId) = {1, 2}
    /\ Len(messages) = 3
    /\ messages[3].conversationId = recency[1]

\* handler h of a customer:message or agent:message ends
EndStep(h) ==
  /\ handlers[h].kind \in MessageKinds
  /\ Steps(h)
  /\ handlers'[h].kind = "idle"

\* the step appends exactly one event
EmitsOne == Len(emitted') = Len(emitted) + 1 /\ SubSeq(emitted', 1, Len(emitted)) = emitted

LastEmitted == emitted'[Len(emitted')]

ErrorsFor(t) ==
  Cardinality({i \in 1..Len(emitted) : emitted[i].ev = "message:error" /\ emitted[i].ref = t})

\* C18: a customer:message or agent:message handler that does not get to
\* its conversation:updated broadcast, because a database call failed, ends
\* by emitting exactly one message:error with the payload's tempId to the
\* sending socket; no socket is closed, and the handler slot is free for
\* later events.
C18_FailureAnsweredOnce ==
  [][/\ \A t \in 1..nEvents["message"] : ErrorsFor(t) <= 1
     /\ \A h \in Handlers :
          EndStep(h) =>
            /\ sockets' = sockets
            /\ EmitsOne
            /\ \/ LastEmitted.ev = "conversation:updated"
               \/ /\ LastEmitted.ev = "message:error"
                  /\ LastEmitted.ref = handlers[h].tempId
                  /\ LastEmitted.to = {handlers[h].sock} \cap Connected]_vars

\* a message has failed on the database and been answered, and a later
\* message has been persisted and delivered
C18_Witness ==
  \E i, j \in 1..Len(emitted) :
    /\ i < j
    /\ emitted[i].ev = "message:error"
    /\ emitted[i].val = "Failed to send message"
    /\ emitted[i].to # {}
    /\ emitted[j].ev = "message:received"
    /\ \A s \in emitted[i].to : sockets[s] = "connected"

\* C19: when a customer:message has been persisted, the sending socket (if
\* still connected) is in the conversation room, however the conversation
\* was resolved, and so gets the message:received of its own message.
C19_SenderInConversationRoom ==
  [][\A h \in Handlers :
       (handlers[h].kind = "customer:message" /\ handlers[h].pc = "cm_increment"
          /\ Steps(h) /\ sockets[handlers[h].sock] = "connected")
         => /\ ConvRoom(handlers[h].conv.id) \in rooms'[handlers[h].sock]
            /\ handlers[h].sock \in LastEmitted.to]_vars

Updates(id) ==
  Cardinality({i \in 1..Len(emitted) :
                 emitted[i].ev = "conversation:updated" /\ emitted[i].conv = id})

\* the handlers that have persisted a message of the conversation and not ended
Pending(id) ==
  Cardinality({h \in Handlers :
                 /\ handlers[h].msg # None
                 /\ messages[handlers[h].msg].conversationId = id})

\* C20: every persisted message whose handler has ended has had exactly one
\* conversation:updated broadcast for its conversation, emitted by the
\* handler's last step, after the message:received of the message, to the
\* sockets of the agents room and no others.
C20_OneUpdateAfterEachMessage ==
  [][/\ \A id \in 1..Len(conversations) :
          Updates(id) + Pending(id) = Cardinality(MessagesOf(id))
     /\ \A h \in Handlers :
          (EndStep(h) /\ handlers[h].msg # None) =>
            /\ EmitsOne
            /\ LastEmitted.ev = "conversation:updated"
            /\ LastEmitted.conv = messages[handlers[h].msg].conversationId
            /\ LastEmitted.to = {s \in Connected : AgentsRoom \in rooms[s]}
            /\ \E i \in 1..Len(emitted) :
                 /\ emitted[i].ev = "message:received"
                 /\ emitted[i].ref = handlers[h].msg]_vars

\* an agent socket has been told of a conversation's update after the
\* message was delivered, and a socket outside the agents room has not
C20_Witness ==
  \E i, j \in 1..Len(emitted) :
    /\ i < j
    /\ emitted[i].ev = "message:received"
    /\ emitted[j].ev = "conversation:updated"
    /\ emitted[j].conv = emitted[i].conv
    /\ emitted[j].ref = emitted[i].ref
    /\ emitted[j].to # {}
    /\ \E s \in Sockets : sockets[s] = "connected" /\ s \notin emitted[j].to

\* ------------------------------------------------------------------ C21
\* the conversation:created and conversation:updated broadcasts
ListingEvents ==
  {i \in 1..Len(emitted) :
     emitted[i].ev \in {"conversation:created", "conversation:updated"}}

\* C21: every conversation:created and conversation:updated payload, whether
\* a customer message or an agent message triggered it, has the listing
\* shape: it carries lastMessage and not the messages collection
C21_ListingShapeEverywhere ==
  \A i \in ListingEvents : emitted[i].val = "listing"

\* ------------------------------------------------------------------ C22
RoomJoins == 2

\* the room registry: sockets joining again and again, and dropping
NextRooms ==
  \/ Lifecycle
  \/ Within("join", RoomJoins) /\ Joins(BOOLEAN)
  \/ \E h \in Handlers : CjUpdate(h)

SpecRooms == Init /\ [][NextRooms]_vars

\* the conversation rooms a socket is a member of
ConversationRoomsOf(s) == {r \in rooms[s] : r[1] = "conversation"}

\* C22: a socket is a member of at most one conversation room, the one its
\* registry entry's conversationId names; after a second join with another
\* conversationId it is no longer in the previous room
C22_OneConversationRoom ==
  \A s \in Sockets :
    ConversationRoomsOf(s) \subseteq {ConvRoom(activeConnections[s].conversationId)}

\* ------------------------------------------------------------------ C24
\* the other connected sockets registered as the same agent as socket s
OtherSocketsOfAgent(s) ==
  {o \in Connected \ {s} :
     /\ activeConnections[o].userType = "agent"
     /\ activeConnections[o].userId = activeConnections[s].userId}

\* C24: a disconnect broadcasts the agent offline only when no other
\* connected socket registered as the same agent remains
C24_OfflineOnlyForLastSocket ==
  [][\A s \in Sockets :
       (/\ sockets[s] = "connected"
        /\ sockets'[s] = "closed"
        /\ Len(emitted') > Len(emitted)
        /\ LastEmitted.ev = "agent:status") => OtherSocketsOfAgent(s) = {}]_vars

\* ------------------------------------------------------------------ C23
\* the presence tracker over a storage that never fails: every issued write
\* of an existing agent's row completes, in any order; the sockets that watch
\* join first
NextStored ==
  \/ Lifecycle
  \/ (Within("join", PresenceJoins) /\ nEvents["presence"] = 0) /\ Watching
  \/ Within("presence", MaxPresenceEvents) /\ PresenceEvents
  \/ \E i \in 1..Len(presenceWrites) : PresenceWriteDone(i)

SpecStored == Init /\ [][NextStored]_vars

\* the agent:status broadcasts for agent a, by position
StatusBroadcasts(a) ==
  {i \in 1..Len(emitted) : emitted[i].ev = "agent:status" /\ emitted[i].who = a}

\* C23: once every presence write in flight has completed without failure,
\* each agent's stored isOnline is the isOnline of the latest agent:status
\* broadcast for that agent, whatever the order the writes completed in
C23_StoredPresenceIsLastBroadcast ==
  presenceWrites = <<>> =>
    \A a \in Agents :
      StatusBroadcasts(a) # {} =>
        agentOnline[a] = (emitted[Max(StatusBroadcasts(a))].val = "online")

\* ------------------------------------------------------------------ C25
\* the message:received emissions of message m that reach socket s
ReceiptsOf(s, m) ==
  {i \in 1..Len(emitted) :
     /\ emitted[i].ev = "message:received"
     /\ emitted[i].ref = m
     /\ s \in emitted[i].to}

\* C25: a socket receives the message:received of any one persisted message
\* at most once, also a customer socket that is in the conversation room and
\* in its customer room when an agent message goes out to both
C25_ReceivedAtMostOnce ==
  \A s \in Sockets, m \in 1..Len(messages) : Cardinality(ReceiptsOf(s, m)) <= 1

\* ------------------------------------------------------------------ C26
\* what the handler in slot h is known to have written when it is suspended:
\* its message.create has returned, or its conversation.create has just
\* returned
WroteMessage(h) == handlers[h].msg # None

WroteConversation(h) == handlers[h].pc = "cm_details"

\* C26: a customer:message or agent:message handler that ends by emitting
\* message:error to the sender has left the durable state as it found it (no
\* Message row, no Conversation created), whichever of its database calls
\* failed
C26_FailedHandlerWroteNothing ==
  [][\A h \in Handlers :
       (EndStep(h) /\ EmitsOne /\ LastEmitted.ev = "message:error")
         => ~WroteMessage(h) /\ ~WroteConversation(h)]_vars

\* ------------------------------------------------------------------ C27
ClosingEvents == 2
ClosingActions == 1

\* agents replying to a conversation while the dashboard closes it: the
\* server action runs between any two awaits of the handlers
NextClosing ==
  \/ Lifecycle
  \/ (conversations = <<>> /\ AllIdle) /\ Opening
  \/ Within("message", ClosingEvents) /\ Replies
  \/ Within("action", ClosingActions) /\ \E id \in ConvIds : CloseConversation(id)
  \/ OpeningResumes
  \/ ReplyResumes

SpecClosing == Init /\ [][NextClosing]_vars

\* C27: the write of an agent:message handler never undoes a status change
\* made meanwhile: a conversation that is closed when the handler writes,
\* closed after the handler read it, is still closed after the write
C27_ReplyKeepsConversationClosed ==
  [][\A h \in Handlers, id \in DOMAIN conversations :
       (/\ handlers[h].kind = "agent:message"
        /\ Steps(h)
        /\ conversations[id].status = "closed")
         => conversations'[id].status = "closed"]_vars

\* ------------------------------------------------------------------ C28
OpeningEvents == 2

\* customers writing without a conversationId, their handlers interleaving
\* at every await
NextOpenings ==
  \/ Lifecycle
  \/ Within("message", OpeningEvents) /\ Opening
  \/ ResolverResumes

SpecOpenings == Init /\ [][NextOpenings]_vars

\* the conversation:created broadcasts for conversation id, by position
Creations(id) ==
  {i \in 1..Len(emitted) :
     emitted[i].ev = "conversation:created" /\ emitted[i].conv = id}

\* C28: for every conversation a customer:message created,
\* conversation:created is broadcast before any conversation:updated for it,
\* also when other customer:message handlers of the same customer find the
\* new conversation and reuse it
C28_CreatedBeforeUpdated ==
  \A i \in 1..Len(emitted) :
    emitted[i].ev = "conversation:updated" =>
      \E j \in Creations(emitted[i].conv) : j < i

\* ------------------------------------------------------------------ C29
OwnershipEvents == 2

\* a customerId of another widget: any uuid passes CustomerMessageSchema
OtherCustomer == CustomerNames[NumCustomers + 1]

\* a customer:message that names a conversation, sent under another
\* customerId
ForeignMessage ==
  \E s \in Sockets, id \in ConvIds : CustomerMessage(s, OtherCustomer, id)

\* customers opening conversations and a stranger writing into them by id
NextOwnership ==
  \/ Lifecycle
  \/ Within("message", OwnershipEvents) /\ Opening
  \/ Within("message", OwnershipEvents) /\ ForeignMessage
  \/ ResolverResumes
  \/ \E h \in Handlers : CmFindUnique(h)

SpecOwnership == Init /\ [][NextOwnership]_vars

\* C29: a customer:message is persisted only into a conversation of the
\* customer its payload names: every customer Message row sits in a
\* conversation whose customerId is the message's senderId
C29_PersistedOnlyForOwner ==
  \A m \in 1..Len(messages) :
    messages[m].senderType = "customer" =>
      conversations[messages[m].conversationId].customerId = messages[m].senderId

\* ------------------------------------------------------------------ C30
ExpiryEvents == 2

\* senderId is any string (TypingSchema): the ids the widget and the
\* dashboard send, and the sending socket's own id
OwnIdTyping ==
  \E s \in Sockets, id \in ConvIds : CustomerTyping(s, id, s, "customer")

\* typing events are taken while the clock leaves their timer room to expire
NextExpiry ==
  \/ Lifecycle
  \/ (Within("typing", ExpiryEvents) /\ now + TypingTimeout <= MaxTime) /\ TypingEvents
  \/ (Within("typing", ExpiryEvents) /\ now + TypingTimeout <= MaxTime) /\ OwnIdTyping
  \/ \E t \in timers : TimerFire(t)
  \/ Tick

\* the typing coordinator with time passing and every armed timer that is
\* not cancelled firing once it is due
SpecExpiry ==
  /\ Init
  /\ [][NextExpiry]_vars
  /\ WF_vars(Tick)
  /\ WF_vars(\E t \in timers : TimerFire(t))

ExpiryKeys == {TypingKey(id, u) : id \in ConvIds, u \in SenderIds \cup Sockets}

\* the last typing broadcast for the key is a typing:start / a typing:stop
LastIsStart(k) ==
  Len(TypingLog(k)) > 0 /\ TypingLog(k)[Len(TypingLog(k))].ev = "typing:start"

LastIsStop(k) ==
  Len(TypingLog(k)) > 0 /\ TypingLog(k)[Len(TypingLog(k))].ev = "typing:stop"

\* C30: if every armed timer that is not cancelled fires in the end, every
\* typing:start for a key is followed in the end by a typing:stop for that
\* key, also when the sending socket disconnects before the timer fires
C30_StartLeadsToStop ==
  \A k \in ExpiryKeys : LastIsStart(k) ~> LastIsStop(k)

====
